---- MODULE Spec2Model ----
(***************************************************************************)
(* Model of the journey HTTP backend: the four implemented handlers of     *)
(* ApiServer (confirm participant, create trip, get trip, get trip         *)
(* activities), the detached confirmation e-mail started by PostTrips, and *)
(* the pure grouping helper mapActivities.                                  *)
(***************************************************************************)
EXTENDS Integers, Sequences, FiniteSets, TLC

(* ---------------------------- bounds ---------------------------------- *)
MaxReqs == 2      \* HTTP requests served in one behaviour
MaxUUID == 2      \* identifiers a client can name / rows initially stored
MaxActs == 3      \* longest activity list handed to mapActivities
MaxDate == 2      \* calendar dates of an occurrence timestamp
MaxClock == 2     \* time-of-day values of an occurrence timestamp

Reqs == 1..MaxReqs
UUIDs == 1..MaxUUID
AllUUIDs == 1..(MaxUUID + MaxReqs)

(* ------------------------ identifiers --------------------------------- *)
\* A path parameter is a string.  It is described by the textual form it is
\* written in and, for the forms uuid.Parse accepts, the UUID it spells.
IdStrings == [form : {"canonical", "urn"}, val : UUIDs] \cup {[form |-> "malformed", val |-> 0]}

uuidParse_AcceptAll(s) == [err |-> FALSE, id |-> s.val]

\* uuid.Parse(s): err is set for a string that is no UUID; the canonical and
\* the urn:uuid: spelling of a UUID parse to the same value.
uuidParse(s) ==
  IF s.form \in {"canonical", "urn"}
  THEN [err |-> FALSE, id |-> s.val]
  ELSE [err |-> TRUE, id |-> 0]

\* uuid.UUID.String(): always the canonical spelling
uuidString(id) == [form |-> "canonical", val |-> id]

(* ------------------------ activity grouping --------------------------- *)
\* time.Time values: a calendar date and a time of day.  Two values are the
\* same map key only when both components agree.
Times == [date : 1..MaxDate, clock : 1..MaxClock]

\* pgstore.Activity as read from the store
activityRow(aid, tid, time) ==
  [ID |-> aid, TripID |-> tid, OccursAt |-> [Time |-> time, Valid |-> TRUE], Title |-> "a"]

Range(f) == {f[i] : i \in DOMAIN f}

\* spec.GetTripActivitiesResponseInnerArray built from one store row
innerActivity(activity) ==
  [ID |-> uuidString(activity.ID), OccursAt |-> activity.OccursAt.Time, Title |-> activity.Title]

mapKey_DateOnly(activity) == [date |-> activity.OccursAt.Time.date, clock |-> 1]

\* the key under which an activity is filed in activityMap
mapKey(activity) == activity.OccursAt.Time

mapPut_Overwrite(activityMap, key, inner) ==
  [k \in (DOMAIN activityMap) \cup {key} |->
     IF k = key THEN <<inner>> ELSE activityMap[k]]

\* activityMap[key] = append(activityMap[key], inner); a missing key reads as nil
mapPut(activityMap, key, inner) ==
  [k \in (DOMAIN activityMap) \cup {key} |->
     IF k = key
     THEN (IF key \in DOMAIN activityMap THEN Append(activityMap[key], inner) ELSE <<inner>>)
     ELSE activityMap[k]]

\* the first loop of mapActivities: file activities[i..] into activityMap
RECURSIVE fillMap(_, _, _)
fillMap(activities, i, activityMap) ==
  IF i > Len(activities) THEN activityMap
  ELSE fillMap(activities, i + 1,
               mapPut(activityMap, mapKey(activities[i]), innerActivity(activities[i])))

\* the orders in which `range activityMap` may visit a set of keys
rangeOrders(keys) ==
  {p \in [1..Cardinality(keys) -> keys] : \A i, j \in DOMAIN p : i # j => p[i] # p[j]}

\* mapActivities(activities): every slice the function may return; the
\* iteration order of a Go map is not fixed, so one input has several outputs.
mapActivities(activities) ==
  LET activityMap == fillMap(activities, 1, <<>>)
  IN {[i \in DOMAIN p |-> [Activities |-> activityMap[p[i]], Date |-> p[i]]] :
        p \in rangeOrders(DOMAIN activityMap)}

(* ------------------------------ state --------------------------------- *)
VARIABLE participants  \* store: participant rows, UUID -> [IsConfirmed]
VARIABLE participants0  \* the participant rows the store started with
VARIABLE trips  \* store: trip rows, UUID -> [Destination, IsConfirmed]
VARIABLE activities  \* store: activity rows, in the order a query returns them
VARIABLE handler  \* per request: the handler serving it ("none" before arrival)
VARIABLE pc  \* per request: the handler's position
VARIABLE param  \* per request: the identifier path parameter
VARIABLE body  \* per request: the request body (PostTrips)
VARIABLE id  \* per request: the handler's local id (parsed identifier)
VARIABLE participant  \* per request: the handler's local participant row
VARIABLE tripID  \* per request: the handler's local tripID
VARIABLE resp  \* per request: the *spec.Response returned
VARIABLE calls  \* per request: the store operations the handler has called
VARIABLE logged  \* per request: messages the handler passed to api.logger.Error
VARIABLE doneBefore  \* per request: the requests already answered when it arrived
VARIABLE mail  \* per request: position of the goroutine started by PostTrips
VARIABLE sends  \* per request: calls of SendConfirmTripEmailToTripOwner started
VARIABLE mailLogged  \* per request: the goroutine logged a failed send
VARIABLE mapIn  \* argument of a direct call of mapActivities
VARIABLE mapOut  \* its result
VARIABLE mapPc  \* "ready" before the call, "returned" after

storeVars == <<participants, participants0, trips, activities>>
reqVars == <<handler, pc, param, body, id, participant, tripID, resp, calls, logged, doneBefore>>
mailVars == <<mail, sends, mailLogged>>
mapVars == <<mapIn, mapOut, mapPc>>
vars == <<storeVars, reqVars, mailVars, mapVars>>

(* --------------------------- request inputs --------------------------- *)
\* A POST /trips body: whether it is JSON at all, and whether the decoded
\* struct satisfies the validation tags.
Bodies ==
  {[wellFormed |-> FALSE, fieldsValid |-> FALSE, destination |-> ""],
   [wellFormed |-> TRUE, fieldsValid |-> FALSE, destination |-> ""],
   [wellFormed |-> TRUE, fieldsValid |-> TRUE, destination |-> "d"]}

NoParam == [form |-> "none", val |-> 0]
NoBody == [wellFormed |-> FALSE, fieldsValid |-> FALSE, destination |-> "none"]
NoParticipant == [IsConfirmed |-> FALSE]

(* ------------------------------ responses ----------------------------- *)
NoResponse == [status |-> 0, message |-> "", payload |-> <<>>]

JSON400Response(message) == [status |-> 400, message |-> message, payload |-> <<>>]

JSON204Response == [status |-> 204, message |-> "", payload |-> <<>>]

JSON201Response(payload) == [status |-> 201, message |-> "", payload |-> payload]

JSON200Response(payload) == [status |-> 200, message |-> "", payload |-> payload]

(* ------------------------------- store -------------------------------- *)
\* The outcomes a store operation can report: "ok", "norows" (pgx.ErrNoRows)
\* or "err" (any other failure, possible at every call).
getParticipantOutcomes(pid) ==
  {"err"} \cup (IF pid \in DOMAIN participants THEN {"ok"} ELSE {"norows"})

getTripOutcomes(tid) ==
  {"err"} \cup (IF tid \in DOMAIN trips THEN {"ok"} ELSE {"norows"})

\* the rows of one trip, in table order
RECURSIVE rowsOf(_, _)
rowsOf(rows, tid) ==
  IF rows = <<>> THEN <<>>
  ELSE (IF Head(rows).TripID = tid THEN <<Head(rows)>> ELSE <<>>) \o rowsOf(Tail(rows), tid)

\* a trip without rows is reported as an empty list or as pgx.ErrNoRows
getTripActivitiesOutcomes(tid) ==
  {"err", "ok"} \cup (IF rowsOf(activities, tid) = <<>> THEN {"norows"} ELSE {})

\* ConfirmParticipant: the row's flag becomes true
confirmRow(rows, pid) ==
  [p \in DOMAIN rows |-> IF p = pid THEN [rows[p] EXCEPT !.IsConfirmed = TRUE] ELSE rows[p]]

\* CreateTrip: a row under a fresh identifier
insertTrip(rows, tid, b) ==
  [t \in (DOMAIN rows) \cup {tid} |->
     IF t = tid THEN [Destination |-> b.destination, IsConfirmed |-> FALSE] ELSE rows[t]]

\* the identifier CreateTrip gives a new row: one that names no row yet
\* (identifiers are interchangeable, so the least unused one stands for any)
freshTripID(rows) == CHOOSE t \in AllUUIDs \ DOMAIN rows : \A u \in AllUUIDs \ DOMAIN rows : t <= u

call(op, res) == [op |-> op, res |-> res]

(* --------------------------- request arrival -------------------------- *)
\* Request slots are taken in order; the server runs each request in its own
\* goroutine, so a request may arrive while earlier ones are still running.
\* A handler's steps up to and including its first store call touch nothing
\* shared before that call, so they form one action.
arrive(r, h) ==
  /\ pc[r] = "idle"
  /\ \A q \in Reqs : q < r => handler[q] # "none"
  /\ handler' = [handler EXCEPT ![r] = h]
  /\ doneBefore' = [doneBefore EXCEPT ![r] =
                      IF h = "confirm"
                      THEN {q \in Reqs : handler[q] = "confirm" /\ pc[q] = "done"}
                      ELSE {}]

\* return a response
return(r, response) ==
  /\ resp' = [resp EXCEPT ![r] = response]
  /\ pc' = [pc EXCEPT ![r] = "done"]

(* ---------------- PATCH /participants/{participantId}/confirm --------- *)
alreadyConfirmed_Never(p) == FALSE

\* if participant.IsConfirmed
alreadyConfirmed(p) == p.IsConfirmed

confirmAfterGet_NoReturnOnNoRows(r, pid, res) ==
  CASE res = "err" ->
         /\ logged' = [logged EXCEPT ![r] = Append(@, "failed to get participant")]
         /\ return(r, JSON400Response("something went wrong, try again"))
         /\ UNCHANGED participant
    [] res = "norows" ->
         /\ pc' = [pc EXCEPT ![r] = "confirmParticipant"]
         /\ UNCHANGED <<participant, logged, resp>>
    [] res = "ok" ->
         /\ participant' = [participant EXCEPT ![r] = participants[pid]]
         /\ IF alreadyConfirmed(participants[pid])
            THEN return(r, JSON400Response("participant already confirmed"))
            ELSE /\ pc' = [pc EXCEPT ![r] = "confirmParticipant"]
                 /\ UNCHANGED resp
         /\ UNCHANGED logged

\* the checks on GetParticipant's result
confirmAfterGet(r, pid, res) ==
  CASE res = "norows" ->
         /\ return(r, JSON400Response("participant not found"))
         /\ UNCHANGED <<participant, logged>>
    [] res = "err" ->
         /\ logged' = [logged EXCEPT ![r] = Append(@, "failed to get participant")]
         /\ return(r, JSON400Response("something went wrong, try again"))
         /\ UNCHANGED participant
    [] res = "ok" ->
         /\ participant' = [participant EXCEPT ![r] = participants[pid]]
         /\ IF alreadyConfirmed(participants[pid])
            THEN return(r, JSON400Response("participant already confirmed"))
            ELSE /\ pc' = [pc EXCEPT ![r] = "confirmParticipant"]
                 /\ UNCHANGED resp
         /\ UNCHANGED logged

\* uuid.Parse of the path parameter, api.store.GetParticipant and the checks
\* on its result
Confirm_GetParticipant(r) ==
  \E s \in IdStrings :
    /\ arrive(r, "confirm")
    /\ param' = [param EXCEPT ![r] = s]
    /\ IF uuidParse(s).err
       THEN /\ return(r, JSON400Response("uuid invalid"))
            /\ UNCHANGED <<id, calls, participant, logged>>
       ELSE /\ id' = [id EXCEPT ![r] = uuidParse(s).id]
            /\ \E res \in getParticipantOutcomes(uuidParse(s).id) :
                 /\ calls' = [calls EXCEPT ![r] = Append(@, call("GetParticipant", res))]
                 /\ confirmAfterGet(r, uuidParse(s).id, res)
    /\ UNCHANGED <<storeVars, body, tripID, mailVars, mapVars>>

\* api.store.ConfirmParticipant and the final response
Confirm_ConfirmParticipant(r) ==
  /\ pc[r] = "confirmParticipant"
  /\ \E res \in {"ok", "err"} :
       /\ calls' = [calls EXCEPT ![r] = Append(@, call("ConfirmParticipant", res))]
       /\ IF res = "err"
          THEN /\ logged' = [logged EXCEPT ![r] = Append(@, "failed to confim participant")]
               /\ return(r, JSON400Response("something went wrong, try again"))
               /\ UNCHANGED participants
          ELSE /\ participants' = confirmRow(participants, id[r])
               /\ return(r, JSON204Response)
               /\ UNCHANGED logged
  /\ UNCHANGED <<participants0, trips, activities, handler, param, body, id, participant, tripID,
                 doneBefore, mailVars, mapVars>>

(* ------------------------------ POST /trips --------------------------- *)
\* json.NewDecoder(r.Body).Decode(&body)
jsonDecode(b) == [err |-> ~b.wellFormed]

\* api.validator.Struct(body)
validatorStruct(b) == [err |-> ~b.fieldsValid]

createTripAndGo_SendFirst(r, b, res) ==
  /\ mail' = [mail EXCEPT ![r] = "getTrip"]
  /\ sends' = [sends EXCEPT ![r] = @ + 1]
  /\ IF res = "err"
     THEN /\ return(r, JSON400Response("failed to create trip, try again"))
          /\ UNCHANGED <<trips, tripID>>
     ELSE /\ trips' = insertTrip(trips, freshTripID(trips), b)
          /\ tripID' = [tripID EXCEPT ![r] = freshTripID(trips)]
          /\ pc' = [pc EXCEPT ![r] = "return"]
          /\ UNCHANGED resp

\* the check of CreateTrip's result; on success the go statement, which
\* starts SendConfirmTripEmailToTripOwner(tripID) in a goroutine of its own
createTripAndGo(r, b, res) ==
  IF res = "err"
  THEN /\ return(r, JSON400Response("failed to create trip, try again"))
       /\ UNCHANGED <<trips, tripID, mail, sends>>
  ELSE /\ trips' = insertTrip(trips, freshTripID(trips), b)
       /\ tripID' = [tripID EXCEPT ![r] = freshTripID(trips)]
       /\ mail' = [mail EXCEPT ![r] = "getTrip"]
       /\ sends' = [sends EXCEPT ![r] = @ + 1]
       /\ pc' = [pc EXCEPT ![r] = "return"]
       /\ UNCHANGED resp

\* decoding and validation of the body, api.store.CreateTrip, go func()
PostTrips_CreateTrip(r) ==
  \E b \in Bodies :
    /\ arrive(r, "postTrips")
    /\ body' = [body EXCEPT ![r] = b]
    /\ IF jsonDecode(b).err
       THEN /\ return(r, JSON400Response("invalid JSON"))
            /\ UNCHANGED <<trips, tripID, calls, mail, sends>>
       ELSE IF validatorStruct(b).err
            THEN /\ return(r, JSON400Response("invalid input: validation error"))
                 /\ UNCHANGED <<trips, tripID, calls, mail, sends>>
            ELSE \E res \in {"ok", "err"} :
                   /\ calls' = [calls EXCEPT ![r] = Append(@, call("CreateTrip", res))]
                   /\ createTripAndGo(r, b, res)
    /\ UNCHANGED <<participants, participants0, activities, param, id, participant, logged,
                   mailLogged, mapVars>>

PostTrips_Return_AfterSend(r) ==
  /\ pc[r] = "return"
  /\ mail[r] \in {"sent", "failed"}
  /\ IF mail[r] = "sent"
     THEN return(r, JSON201Response([TripID |-> uuidString(tripID[r])]))
     ELSE return(r, JSON400Response("something went wrong, try again"))
  /\ UNCHANGED <<storeVars, handler, param, body, id, participant, tripID, calls, logged,
                 doneBefore, mailVars, mapVars>>

\* return spec.PostTripsJSON201Response(...)
PostTrips_Return(r) ==
  /\ pc[r] = "return"
  /\ return(r, JSON201Response([TripID |-> uuidString(tripID[r])]))
  /\ UNCHANGED <<storeVars, handler, param, body, id, participant, tripID, calls, logged,
                 doneBefore, mailVars, mapVars>>

(* --------------- Mailpit.SendConfirmTripEmailToTripOwner --------------- *)
\* mp.store.GetTrip in the goroutine; an error is returned to the goroutine,
\* which logs it
Mailer_GetTrip(r) ==
  /\ mail[r] = "getTrip"
  /\ \E res \in getTripOutcomes(tripID[r]) :
       IF res = "ok"
       THEN /\ mail' = [mail EXCEPT ![r] = "send"]
            /\ UNCHANGED mailLogged
       ELSE /\ mail' = [mail EXCEPT ![r] = "failed"]
            /\ mailLogged' = [mailLogged EXCEPT ![r] = TRUE]
  /\ UNCHANGED <<storeVars, reqVars, sends, mapVars>>

\* composing the message and client.DialAndSend; each may fail
Mailer_DialAndSend(r) ==
  /\ mail[r] = "send"
  /\ \E ok \in BOOLEAN :
       IF ok
       THEN /\ mail' = [mail EXCEPT ![r] = "sent"]
            /\ UNCHANGED mailLogged
       ELSE /\ mail' = [mail EXCEPT ![r] = "failed"]
            /\ mailLogged' = [mailLogged EXCEPT ![r] = TRUE]
  /\ UNCHANGED <<storeVars, reqVars, sends, mapVars>>

(* --------------------------- GET /trips/{tripId} ----------------------- *)
getTripError_NotFound404(res) ==
  IF res = "norows"
  THEN [status |-> 404, message |-> "Trip not found", payload |-> <<>>]
  ELSE JSON400Response("something went wrong, try again")

\* the response for a failed GetTrip
getTripError(res) ==
  IF res = "norows"
  THEN JSON400Response("Trip not found")
  ELSE JSON400Response("something went wrong, try again")

\* spec.GetTripDetailsResponseTripObj
responseTrip(tid, trip) ==
  [ID |-> uuidString(tid), Destination |-> trip.Destination, IsConfirmed |-> trip.IsConfirmed]

GetTripsTripID(r) ==
  \E s \in IdStrings :
    /\ arrive(r, "getTrip")
    /\ param' = [param EXCEPT ![r] = s]
    /\ IF uuidParse(s).err
       THEN /\ return(r, JSON400Response("uuid invalid"))
            /\ UNCHANGED <<id, calls, logged>>
       ELSE /\ id' = [id EXCEPT ![r] = uuidParse(s).id]
            /\ \E res \in getTripOutcomes(uuidParse(s).id) :
                 /\ calls' = [calls EXCEPT ![r] = Append(@, call("GetTrip", res))]
                 /\ IF res = "ok"
                    THEN /\ return(r, JSON200Response(
                                        [Trip |-> responseTrip(uuidParse(s).id, trips[uuidParse(s).id])]))
                         /\ UNCHANGED logged
                    ELSE /\ return(r, getTripError(res))
                         /\ logged' = [logged EXCEPT ![r] =
                                         IF res = "err" THEN Append(@, "failed to get trip") ELSE @]
    /\ UNCHANGED <<storeVars, body, participant, tripID, mailVars, mapVars>>

(* --------------------- GET /trips/{tripId}/activities ------------------ *)
GetTripsTripIDActivities(r) ==
  \E s \in IdStrings :
    /\ arrive(r, "getTripActivities")
    /\ param' = [param EXCEPT ![r] = s]
    /\ IF uuidParse(s).err
       THEN /\ return(r, JSON400Response("uuid invalid"))
            /\ UNCHANGED <<id, calls, logged>>
       ELSE /\ id' = [id EXCEPT ![r] = uuidParse(s).id]
            /\ \E res \in getTripActivitiesOutcomes(uuidParse(s).id) :
                 /\ calls' = [calls EXCEPT ![r] = Append(@, call("GetTripActivities", res))]
                 /\ CASE res = "norows" ->
                           /\ return(r, JSON400Response("no trips found"))
                           /\ UNCHANGED logged
                      [] res = "err" ->
                           /\ logged' = [logged EXCEPT ![r] = Append(@, "failed to get trips")]
                           /\ return(r, JSON400Response("something went wrong, try again"))
                      [] res = "ok" ->
                           /\ \E responseActivities \in
                                  mapActivities(rowsOf(activities, uuidParse(s).id)) :
                                return(r, JSON200Response([Activities |-> responseActivities]))
                           /\ UNCHANGED logged
    /\ UNCHANGED <<storeVars, body, participant, tripID, mailVars, mapVars>>

(* ------------------------------ the server ---------------------------- *)
\* the activity table the store starts with: trip 1 has two activities on the
\* same date at different times, the other trips have none
SeedTable ==
  <<activityRow(1, 1, [date |-> 1, clock |-> 1]), activityRow(2, 1, [date |-> 1, clock |-> 2])>>

SeedTrip == [Destination |-> "d", IsConfirmed |-> FALSE]

\* The store holds rows for all identifiers but the last, which names nothing.
InitStore ==
  /\ participants \in [1..(MaxUUID - 1) -> [IsConfirmed : BOOLEAN]]
  /\ participants0 = participants
  /\ trips = [t \in 1..(MaxUUID - 1) |-> SeedTrip]
  /\ activities = SeedTable

InitReqs ==
  /\ handler = [r \in Reqs |-> "none"]
  /\ pc = [r \in Reqs |-> "idle"]
  /\ param = [r \in Reqs |-> NoParam]
  /\ body = [r \in Reqs |-> NoBody]
  /\ id = [r \in Reqs |-> 0]
  /\ participant = [r \in Reqs |-> NoParticipant]
  /\ tripID = [r \in Reqs |-> 0]
  /\ resp = [r \in Reqs |-> NoResponse]
  /\ calls = [r \in Reqs |-> <<>>]
  /\ logged = [r \in Reqs |-> <<>>]
  /\ doneBefore = [r \in Reqs |-> {}]
  /\ mail = [r \in Reqs |-> "none"]
  /\ sends = [r \in Reqs |-> 0]
  /\ mailLogged = [r \in Reqs |-> FALSE]

Init ==
  /\ InitStore
  /\ InitReqs
  /\ mapIn = <<>>
  /\ mapOut = <<>>
  /\ mapPc = "unused"

Next ==
  \E r \in Reqs :
    \/ Confirm_GetParticipant(r)
    \/ Confirm_ConfirmParticipant(r)
    \/ PostTrips_CreateTrip(r)
    \/ PostTrips_Return(r)
    \/ Mailer_GetTrip(r)
    \/ Mailer_DialAndSend(r)
    \/ GetTripsTripID(r)
    \/ GetTripsTripIDActivities(r)

Spec == Init /\ [][Next]_vars

(* ------------------ mapActivities called on its own ------------------- *)
\* the sequences over S of length at most n
RECURSIVE SeqsUpTo(_, _)
SeqsUpTo(S, n) ==
  IF n = 0 THEN {<<>>}
  ELSE LET shorter == SeqsUpTo(S, n - 1)
       IN shorter \cup {Append(q, x) : q \in {t \in shorter : Len(t) = n - 1}, x \in S}

\* mapActivities is handed the rows of one trip: distinct activities, each
\* with any occurrence timestamp
InitMap ==
  /\ participants = [p \in 1..(MaxUUID - 1) |-> [IsConfirmed |-> FALSE]]
  /\ participants0 = participants
  /\ trips = [t \in 1..(MaxUUID - 1) |-> SeedTrip]
  /\ activities = <<>>
  /\ InitReqs
  /\ \E stamps \in SeqsUpTo(Times, MaxActs) :
       mapIn = [i \in DOMAIN stamps |-> activityRow(i, 1, stamps[i])]
  /\ mapOut = <<>>
  /\ mapPc = "ready"

CallMapActivities ==
  /\ mapPc = "ready"
  /\ \E outerActivities \in mapActivities(mapIn) :
       mapOut' = outerActivities
  /\ mapPc' = "returned"
  /\ UNCHANGED <<storeVars, reqVars, mailVars, mapIn>>

NextMap == CallMapActivities

SpecMap == InitMap /\ [][NextMap]_vars

(* ============================== properties ============================ *)
RECURSIVE IsSubseq(_, _)
IsSubseq(s, t) ==
  IF s = <<>> THEN TRUE
  ELSE IF t = <<>> THEN FALSE
  ELSE IF Head(s) = Head(t) THEN IsSubseq(Tail(s), Tail(t))
  ELSE IsSubseq(s, Tail(t))

Count(x, s) == Cardinality({i \in DOMAIN s : s[i] = x})

RECURSIVE Flatten(_)
Flatten(groups) ==
  IF groups = <<>> THEN <<>> ELSE Head(groups).Activities \o Flatten(Tail(groups))

Called(r, op) == \E i \in DOMAIN calls[r] : calls[r][i].op = op

NoStoreFailure(r) == \A i \in DOMAIN calls[r] : calls[r][i].res # "err"

\* request r is a confirm request whose path parameter spells participant p
ConfirmsParticipant(r, p) ==
  /\ handler[r] = "confirm"
  /\ param[r].form # "malformed"
  /\ param[r].val = p

\* C1: every activity handed to mapActivities appears exactly once across the
\* returned groups, and the activities of each group are in input order.
C1_EveryActivityOnceInOrder ==
  mapPc = "returned" =>
    LET inner == [i \in DOMAIN mapIn |-> innerActivity(mapIn[i])]
        out == Flatten(mapOut)
    IN /\ Len(out) = Len(inner)
       /\ \A a \in Range(inner) \cup Range(out) : Count(a, out) = Count(a, inner)
       /\ \A g \in DOMAIN mapOut : IsSubseq(mapOut[g].Activities, inner)

\* an input of three activities returned as two groups, one holding two of them
C1_Witness ==
  /\ mapPc = "returned"
  /\ Len(mapIn) = 3
  /\ Len(mapOut) = 2
  /\ \E g \in DOMAIN mapOut : Len(mapOut[g].Activities) = 2
  /\ mapIn[1].OccursAt = mapIn[3].OccursAt
  /\ mapIn[1].ID # mapIn[3].ID

\* C2: mapActivities returns one group per distinct occurrence timestamp: no
\* two groups have the same Date, every activity of a group occurs at the
\* group's Date, and the empty list gives no group.
C2_OneGroupPerTimestamp ==
  mapPc = "returned" =>
    LET stamps == {mapIn[i].OccursAt.Time : i \in DOMAIN mapIn}
    IN /\ \A g, h \in DOMAIN mapOut : g # h => mapOut[g].Date # mapOut[h].Date
       /\ \A g \in DOMAIN mapOut : \A k \in DOMAIN mapOut[g].Activities :
            mapOut[g].Activities[k].OccursAt = mapOut[g].Date
       /\ {mapOut[g].Date : g \in DOMAIN mapOut} = stamps
       /\ Len(mapOut) = Cardinality(stamps)
       /\ mapIn = <<>> => mapOut = <<>>

\* two activities on the same calendar date at different times, in two groups
C2_Witness ==
  /\ mapPc = "returned"
  /\ Len(mapIn) = 2
  /\ mapIn[1].OccursAt.Time.date = mapIn[2].OccursAt.Time.date
  /\ mapIn[1].OccursAt.Time.clock # mapIn[2].OccursAt.Time.clock
  /\ Len(mapOut) = 2

\* r1 is answered before r2 arrives, both confirm participant p, which the
\* store held unconfirmed at the start; no other confirm request for p
\* overlaps r1, and the store fails in neither request
ConfirmedTwiceInTurn(r1, r2, p) ==
  /\ r1 # r2
  /\ ConfirmsParticipant(r1, p) /\ ConfirmsParticipant(r2, p)
  /\ p \in DOMAIN participants0 /\ ~participants0[p].IsConfirmed
  /\ pc[r1] = "done" /\ pc[r2] = "done"
  /\ r1 \in doneBefore[r2]
  /\ \A q \in Reqs \ {r1} : ConfirmsParticipant(q, p) => r1 \in doneBefore[q]
  /\ NoStoreFailure(r1) /\ NoStoreFailure(r2)

\* C3: of two confirm requests for the same unconfirmed participant served one
\* after the other by a store that does not fail, the first returns 204 and
\* sets the flag, the second returns 400 "participant already confirmed"
\* without calling ConfirmParticipant.
C3_SecondConfirmRejected ==
  \A r1, r2 \in Reqs : \A p \in UUIDs :
    ConfirmedTwiceInTurn(r1, r2, p) =>
      /\ resp[r1].status = 204
      /\ Called(r1, "ConfirmParticipant")
      /\ participants[p].IsConfirmed
      /\ resp[r2].status = 400
      /\ resp[r2].message = "participant already confirmed"
      /\ ~Called(r2, "ConfirmParticipant")

C3_Witness ==
  \E r1, r2 \in Reqs : \E p \in UUIDs :
    /\ ConfirmedTwiceInTurn(r1, r2, p)
    /\ param[r1] # param[r2]
    /\ resp[r2].status = 400

\* C4: among the confirm requests for one stored participant, at most one
\* calls ConfirmParticipant and returns 204, and every other one the store
\* did not fail is answered "participant already confirmed".
C4_ConfirmedExactlyOnce ==
  \A p \in DOMAIN participants0 :
    LET confirming == {r \in Reqs : /\ ConfirmsParticipant(r, p)
                                   /\ Called(r, "ConfirmParticipant")
                                   /\ resp[r].status = 204}
    IN /\ Cardinality(confirming) <= 1
       /\ \A r \in Reqs \ confirming :
            (ConfirmsParticipant(r, p) /\ pc[r] = "done" /\ NoStoreFailure(r)) =>
              resp[r].message = "participant already confirmed"

\* C5: a confirm, get-trip or get-activities request whose identifier is not a
\* UUID returns 400 "uuid invalid" and calls no store operation.
C5_MalformedIdNoStoreAccess ==
  \A r \in Reqs :
    (handler[r] \in {"confirm", "getTrip", "getTripActivities"} /\ param[r].form = "malformed") =>
      /\ pc[r] = "done"
      /\ resp[r].status = 400
      /\ resp[r].message = "uuid invalid"
      /\ calls[r] = <<>>

C5_Witness ==
  \E r1, r2 \in Reqs :
    /\ handler[r1] = "confirm" /\ param[r1].form = "malformed" /\ pc[r1] = "done"
    /\ handler[r2] \in {"getTrip", "getTripActivities"} /\ param[r2].form = "malformed"
    /\ pc[r2] = "done"

\* C6: a get-trip request with a well-formed identifier for which the store
\* reports no row returns 400 with a not-found message that is not the
\* message of a malformed identifier.
C6_TripNotFoundIs400 ==
  \A r \in Reqs :
    (handler[r] = "getTrip" /\ pc[r] = "done" /\ param[r].form # "malformed"
       /\ calls[r] = <<call("GetTrip", "norows")>>) =>
      /\ resp[r].status = 400
      /\ resp[r].message = "Trip not found"
      /\ resp[r].message # "uuid invalid"

C6_Witness ==
  \E r \in Reqs :
    /\ handler[r] = "getTrip" /\ pc[r] = "done"
    /\ calls[r] = <<call("GetTrip", "norows")>>
    /\ id[r] \notin DOMAIN trips

CreateTripSucceeded(r) ==
  /\ handler[r] = "postTrips"
  /\ call("CreateTrip", "ok") \in Range(calls[r])

\* C7: once CreateTrip has succeeded, the handler can return whatever the
\* state of the send, and the response is 201 with the created identifier
\* whether the send is pending, has failed or has succeeded.
C7_ResponseIgnoresNotification ==
  \A r \in Reqs :
    CreateTripSucceeded(r) =>
      /\ pc[r] \in {"return", "done"}
      /\ pc[r] = "return" => ENABLED PostTrips_Return(r)
      /\ pc[r] = "done" =>
           /\ resp[r].status = 201
           /\ resp[r].payload.TripID = uuidString(tripID[r])
           /\ tripID[r] \in DOMAIN trips

\* one request answered 201 while its send has not finished, another answered
\* 201 whose send failed and was logged
C7_Witness ==
  \E r1, r2 \in Reqs :
    /\ CreateTripSucceeded(r1) /\ pc[r1] = "done" /\ resp[r1].status = 201
    /\ mail[r1] \in {"getTrip", "send"}
    /\ CreateTripSucceeded(r2) /\ pc[r2] = "done" /\ resp[r2].status = 201
    /\ mail[r2] = "failed" /\ mailLogged[r2]

\* C8: a request starts the send at most once, and only as a POST /trips
\* request whose CreateTrip succeeded; a POST /trips request answered 400
\* started none.
C8_SendOnlyAfterCreate ==
  \A r \in Reqs :
    /\ sends[r] <= 1
    /\ (sends[r] > 0 \/ mail[r] # "none") => CreateTripSucceeded(r)
    /\ (handler[r] = "postTrips" /\ pc[r] = "done" /\ resp[r].status = 400) =>
         (sends[r] = 0 /\ mail[r] = "none")

C8_Witness ==
  \E r1, r2 \in Reqs :
    /\ CreateTripSucceeded(r1) /\ sends[r1] = 1 /\ pc[r1] = "done"
    /\ handler[r2] = "postTrips" /\ pc[r2] = "done"
    /\ calls[r2] = <<call("CreateTrip", "err")>> /\ sends[r2] = 0

\* the request passed the handler's input validation
PassedValidation(r) ==
  \/ handler[r] \in {"confirm", "getTrip", "getTripActivities"} /\ param[r].form # "malformed"
  \/ handler[r] = "postTrips" /\ body[r].wellFormed /\ body[r].fieldsValid

\* C9 as stated: an answered request that passed validation called exactly
\* one store operation.
C9_ExactlyOneStoreCall ==
  \A r \in Reqs : (pc[r] = "done" /\ PassedValidation(r)) => Len(calls[r]) = 1

\* C9 amended: an answered request that passed validation called exactly one
\* store operation, except that a confirm request calls GetParticipant and
\* then, exactly when that returned an unconfirmed participant, also
\* ConfirmParticipant.
C9_OneOrTwoStoreCalls ==
  \A r \in Reqs :
    (pc[r] = "done" /\ PassedValidation(r)) =>
      /\ handler[r] = "postTrips" => (Len(calls[r]) = 1 /\ calls[r][1].op = "CreateTrip")
      /\ handler[r] = "getTrip" => (Len(calls[r]) = 1 /\ calls[r][1].op = "GetTrip")
      /\ handler[r] = "getTripActivities" =>
           (Len(calls[r]) = 1 /\ calls[r][1].op = "GetTripActivities")
      /\ handler[r] = "confirm" =>
           /\ Len(calls[r]) \in {1, 2}
           /\ calls[r][1].op = "GetParticipant"
           /\ Len(calls[r]) = 2 <=>
                (calls[r][1].res = "ok" /\ ~participant[r].IsConfirmed)
           /\ Len(calls[r]) = 2 => calls[r][2].op = "ConfirmParticipant"

C9_Witness ==
  \E r1, r2 \in Reqs :
    /\ handler[r1] = "confirm" /\ pc[r1] = "done" /\ Len(calls[r1]) = 2
    /\ handler[r2] = "confirm" /\ pc[r2] = "done" /\ Len(calls[r2]) = 1
    /\ calls[r2][1].res = "ok"

GenericRetryMessages == {"something went wrong, try again", "failed to create trip, try again"}

\* C10: an answered request whose store operation failed with an error other
\* than not-found has logged the failure and returned 400 with a generic
\* retry message.
C10_StoreFailureLoggedAnd400 ==
  \A r \in Reqs :
    (pc[r] = "done" /\ ~NoStoreFailure(r)) =>
      /\ logged[r] # <<>>
      /\ resp[r].status = 400
      /\ resp[r].message \in GenericRetryMessages

====
